---- MODULE Spec2Model ----
(***************************************************************************)
(* Model of src/prefect/server/database/_migrations/env.py: the alembic    *)
(* environment of the Prefect server database.                             *)
(*                                                                         *)
(*  - include_object: the autogenerate object filter (a pure function).    *)
(*  - the module entry point, dry_run_migrations, apply_migrations,        *)
(*    do_run_migrations and disable_sqlite_foreign_keys: the live run of   *)
(*    the pending migrations on one connection.                            *)
(*                                                                         *)
(* The database is a chain of migrations 1..NumMigrations, each made of    *)
(* EditsPerMigration schema edits followed by the write of the version     *)
(* record.  `committed' is the durable database, `working' the view of the *)
(* connection (committed plus the uncommitted work of its transaction).    *)
(* The connection keeps two transaction flags: `sa' (SQLAlchemy holds a    *)
(* transaction object, begun automatically by the first statement) and     *)
(* `db' (the database itself has a transaction open), and the sqlite       *)
(* foreign-key enforcement flag `fk'.                                      *)
(***************************************************************************)
EXTENDS Integers, Sequences, FiniteSets, TLC

\* ---------------------------------------------------------------- bounds
NumMigrations == 3
EditsPerMigration == 2
MaxRuns == 3

VARIABLES
    dialect,            \* env.py:19   dialect.name, fixed for the process
    offline,            \* env.py:193  context.is_offline_mode()
    pc,                 \* position of the run
    runNo,              \* number of the current invocation of the module
    SQLITE_BEGIN_MODE,  \* env.py:11   the context variable
    prior,              \* value of SQLITE_BEGIN_MODE before do_run_migrations
    token,              \* env.py:155  the token returned by .set()
    conn,               \* the connection: [sa, db, fk]
    committed,          \* durable database: [edits, marker]
    working,            \* database as seen by the connection
    txOwner,            \* which with-block owns alembic's transaction
    heads,              \* version resolved by run_migrations
    cur,                \* migration being applied (0: none)
    editsDone,          \* edits of `cur' executed so far in this step
    started,            \* migrations whose step was begun in this run
    log,                \* statements executed by disable_sqlite_foreign_keys
    idx,                \* next statement of the scope's enter/exit list
    exc,                \* an exception is propagating / has left the run
    failedAt,           \* migration whose step raised in this run (0: none)
    failedRecorded,     \* the failing step had already written its version
    prevFailedAt,       \* migration that failed in the previous run (0: none)
    runBase,            \* committed marker when this run was invoked
    rendered,           \* migrations whose SQL the dry run has written out
    filt                \* input and result of one include_object call

vars == <<dialect, offline, pc, runNo, SQLITE_BEGIN_MODE, prior, token, conn,
          committed, working, txOwner, heads, cur, editsDone, started, log,
          idx, exc, failedAt, failedRecorded, prevFailedAt, runBase, rendered,
          filt>>

runVars == <<offline, pc, runNo, SQLITE_BEGIN_MODE, prior, token, conn,
             committed, working, txOwner, heads, cur, editsDone, started, log,
             idx, exc, failedAt, failedRecorded, prevFailedAt, runBase,
             rendered>>

Migrations == 1..NumMigrations

\* ------------------------------------------------------------ include_object
\* Names are sequences of characters so that startswith/endswith are computed.
asc == <<"a","s","c">>
desc == <<"d","e","s","c">>
gin == <<"g","i","n">>
case_insensitive ==
    <<"c","a","s","e","_","i","n","s","e","n","s","i","t","i","v","e">>
ix_ == <<"i","x","_">>

startswith(s, p) ==
    Len(s) >= Len(p) /\ SubSeq(s, 1, Len(p)) = p

endswith(s, p) ==
    Len(s) >= Len(p) /\ SubSeq(s, Len(s) - Len(p) + 1, Len(s)) = p

\* ddl_if values: absent, present without dialect, a str, or a collection.
NoDdlIf == [present |-> FALSE, kind |-> "none", names |-> {}]

DdlIf(kind, names) == [present |-> TRUE, kind |-> kind, names |-> names]

\* env.py:64-68  {ddl_if.dialect} if isinstance(str) else set(ddl_if.dialect)
desired(ddl_if) ==
    IF ddl_if.kind = "str" THEN {CHOOSE n \in ddl_if.names : TRUE}
    ELSE ddl_if.names

NoCompareTo == [present |-> FALSE, name |-> <<>>, type |-> "none"]

include_object_dialect_first(object, name, type_, reflected, compare_to) ==
    IF type_ = "index" /\ ~reflected
          /\ object.ddl_if.present /\ object.ddl_if.kind # "none"
    THEN dialect \in desired(object.ddl_if)
    ELSE IF type_ = "index" /\ ~reflected
          /\ (endswith(name, asc) \/ endswith(name, desc))
    THEN (~compare_to.present) \/ object.name # compare_to.name
    ELSE IF type_ = "index" /\ reflected
          /\ (startswith(name, gin) \/ endswith(name, case_insensitive))
    THEN FALSE
    ELSE IF dialect = "sqlite" /\ type_ = "column" /\ object.type = "enum"
          /\ compare_to.present
    THEN compare_to.type = "enum"
    ELSE TRUE

include_object_gin_and(object, name, type_, reflected, compare_to) ==
    IF type_ = "index" /\ ~reflected
          /\ (endswith(name, asc) \/ endswith(name, desc))
    THEN (~compare_to.present) \/ object.name # compare_to.name
    ELSE IF type_ = "index" /\ ~reflected
          /\ object.ddl_if.present /\ object.ddl_if.kind # "none"
    THEN dialect \in desired(object.ddl_if)
    ELSE IF type_ = "index" /\ reflected
          /\ (startswith(name, gin) /\ endswith(name, case_insensitive))
    THEN FALSE
    ELSE IF dialect = "sqlite" /\ type_ = "column" /\ object.type = "enum"
          /\ compare_to.present
    THEN compare_to.type = "enum"
    ELSE TRUE

include_object_wrong_dialect(object, name, type_, reflected, compare_to) ==
    IF type_ = "index" /\ ~reflected
          /\ (endswith(name, asc) \/ endswith(name, desc))
    THEN (~compare_to.present) \/ object.name # compare_to.name
    ELSE IF type_ = "index" /\ ~reflected
          /\ object.ddl_if.present /\ object.ddl_if.kind # "none"
    THEN dialect \in desired(object.ddl_if) \/ dialect = "sqlite"
    ELSE IF type_ = "index" /\ reflected
          /\ (startswith(name, gin) \/ endswith(name, case_insensitive))
    THEN FALSE
    ELSE IF dialect = "sqlite" /\ type_ = "column" /\ object.type = "enum"
          /\ compare_to.present
    THEN compare_to.type = "enum"
    ELSE TRUE

include_object_enum_any_dialect(object, name, type_, reflected, compare_to) ==
    IF type_ = "index" /\ ~reflected
          /\ (endswith(name, asc) \/ endswith(name, desc))
    THEN (~compare_to.present) \/ object.name # compare_to.name
    ELSE IF type_ = "index" /\ ~reflected
          /\ object.ddl_if.present /\ object.ddl_if.kind # "none"
    THEN dialect \in desired(object.ddl_if)
    ELSE IF type_ = "index" /\ reflected
          /\ (startswith(name, gin) \/ endswith(name, case_insensitive))
    THEN FALSE
    ELSE IF type_ = "column" /\ object.type = "enum" /\ compare_to.present
    THEN compare_to.type = "enum"
    ELSE TRUE

include_object_any_type(object, name, type_, reflected, compare_to) ==
    IF type_ = "index" /\ ~reflected
          /\ (endswith(name, asc) \/ endswith(name, desc))
    THEN (~compare_to.present) \/ object.name # compare_to.name
    ELSE IF type_ = "index" /\ ~reflected
          /\ object.ddl_if.present /\ object.ddl_if.kind # "none"
    THEN dialect \in desired(object.ddl_if)
    ELSE IF reflected
          /\ (startswith(name, gin) \/ endswith(name, case_insensitive))
    THEN FALSE
    ELSE IF dialect = "sqlite" /\ type_ = "column" /\ object.type = "enum"
          /\ compare_to.present
    THEN compare_to.type = "enum"
    ELSE TRUE

\* env.py:59-86
include_object(object, name, type_, reflected, compare_to) ==
    IF type_ = "index" /\ ~reflected
          /\ (endswith(name, asc) \/ endswith(name, desc))
    THEN (~compare_to.present) \/ object.name # compare_to.name
    ELSE IF type_ = "index" /\ ~reflected
          /\ object.ddl_if.present /\ object.ddl_if.kind # "none"
    THEN dialect \in desired(object.ddl_if)
    ELSE IF type_ = "index" /\ reflected
          /\ (startswith(name, gin) \/ endswith(name, case_insensitive))
    THEN FALSE
    ELSE IF dialect = "sqlite" /\ type_ = "column" /\ object.type = "enum"
          /\ compare_to.present
    THEN compare_to.type = "enum"
    ELSE TRUE

\* ------------------------------------------------------- the filter inputs
Names ==
    { ix_ \o asc, ix_ \o desc, asc, gin \o <<"_">> \o desc,
      gin \o <<"_","f","o","o">>, ix_ \o case_insensitive,
      gin \o <<"_">> \o case_insensitive, ix_ \o <<"f","o","o">>,
      asc \o <<"x">>, ix_ \o gin, <<>> }

CompareNames == { ix_ \o asc, ix_ \o desc, gin \o <<"_","f","o","o">> }

DdlIfs ==
    { NoDdlIf, DdlIf("none", {}), DdlIf("str", {"postgresql"}),
      DdlIf("str", {"sqlite"}), DdlIf("set", {"postgresql"}),
      DdlIf("set", {"postgresql", "sqlite"}), DdlIf("set", {}) }

VisitNames == {"enum", "string"}

Types ==
    {"table", "column", "index", "unique_constraint", "foreign_key_constraint"}

FilterDialects == {"sqlite", "postgresql", "mysql"}

Objects == [name : Names, ddl_if : DdlIfs, type : VisitNames]

CompareTos ==
    {NoCompareTo} \cup
    [present : {TRUE}, name : CompareNames, type : VisitNames]

NoCall ==
    [called |-> FALSE, object |-> [name |-> <<>>, ddl_if |-> NoDdlIf,
                                   type |-> "string"],
     type_ |-> "table", reflected |-> FALSE, compare_to |-> NoCompareTo,
     result |-> TRUE]

\* One call of include_object by alembic's autogenerate, which passes
\* object.name as `name'.
CallIncludeObject ==
    /\ ~filt.called
    /\ filt' = [filt EXCEPT
                  !.called = TRUE,
                  !.result = include_object(filt.object, filt.object.name,
                                 filt.type_, filt.reflected, filt.compare_to)]
    /\ UNCHANGED <<dialect, runVars>>

\* -------------------------------------------------------------- the database
Modes == {"None", "DEFERRED", "IMMEDIATE"}

EmptyDb == [edits |-> [m \in Migrations |-> 0], marker |-> 0]

FreshConn(fk) == [sa |-> FALSE, db |-> FALSE, fk |-> fk]

\* impl.transactional_ddl of the dialect's alembic implementation
transactional_ddl == dialect # "sqlite"

transaction_per_migration_off == FALSE

\* env.py:149
transaction_per_migration == TRUE

\* SQLAlchemy begins a transaction before the first statement; on sqlite the
\* BEGIN is emitted by Prefect with the mode held by SQLITE_BEGIN_MODE, and
\* no BEGIN is emitted when the mode is unset (env.py:153-155).
autobegin(c, mode) ==
    IF c.sa THEN c
    ELSE [c EXCEPT !.sa = TRUE,
                   !.db = IF dialect = "sqlite" THEN (c.db \/ mode # "None")
                          ELSE TRUE]

\* context.execute(sql) of the statements used by the scope, on sqlite.
\* A PRAGMA foreign_keys inside an open transaction is a no-op; COMMIT/END
\* without, and BEGIN within, an open transaction are errors.
context_execute(c, sql, mode) ==
    LET a == autobegin(c, mode) IN
    IF sql \in {"COMMIT", "END"}
    THEN [conn |-> [a EXCEPT !.db = FALSE], ok |-> a.db, inTx |-> a.db,
          commit |-> a.db]
    ELSE IF sql = "PRAGMA foreign_keys=OFF"
    THEN [conn |-> [a EXCEPT !.fk = IF a.db THEN a.fk ELSE "OFF"],
          ok |-> TRUE, inTx |-> a.db, commit |-> FALSE]
    ELSE IF sql = "PRAGMA foreign_keys=ON"
    THEN [conn |-> [a EXCEPT !.fk = IF a.db THEN a.fk ELSE "ON"],
          ok |-> TRUE, inTx |-> a.db, commit |-> FALSE]
    ELSE [conn |-> [a EXCEPT !.db = TRUE], ok |-> ~a.db, inTx |-> a.db,
          commit |-> FALSE]

EnterStatements_no_begin == <<"COMMIT", "PRAGMA foreign_keys=OFF">>

EnterStatements_pragma_first ==
    <<"PRAGMA foreign_keys=OFF", "COMMIT", "BEGIN IMMEDIATE">>

\* env.py:170-172
EnterStatements == <<"COMMIT", "PRAGMA foreign_keys=OFF", "BEGIN IMMEDIATE">>

ExitStatements_no_pragma == <<"END", "BEGIN IMMEDIATE">>

\* env.py:177-179
ExitStatements == <<"END", "PRAGMA foreign_keys=ON", "BEGIN IMMEDIATE">>

\* MigrationContext.begin_transaction(_per_migration): does this with-block
\* begin a transaction now?  (configure() saw no external transaction: the
\* connection is fresh.)
begin_transaction(per_migration) ==
    IF transactional_ddl
    THEN per_migration = transaction_per_migration
    ELSE per_migration /\ txOwner = "none"

reset_noop(current, tok) == current

\* env.py:161  SQLITE_BEGIN_MODE.reset(token)
reset(current, tok) == tok

PendingFrom_first(h) == 1

\* run_migrations: the first pending migration after the resolved version
PendingFrom(h) == h + 1

\* ------------------------------------------------------------------ the run
\* The transaction of a with-block is the connection's current transaction
\* if it has one, else a new one (begun as autobegin does).
BeginTx(c, mode) == autobegin(c, mode)

EndTx(c) == [c EXCEPT !.sa = FALSE, !.db = FALSE]

is_offline_mode_inverted == ~offline

\* env.py:193  if context.is_offline_mode():
is_offline_mode == offline

\* env.py:193-194, 96-121  offline mode: configure with the url only (no
\* connection), then render
dry_run_migrations ==
    /\ pc = "module" /\ is_offline_mode
    /\ pc' = "dry_run"
    /\ UNCHANGED <<dialect, offline, runNo, SQLITE_BEGIN_MODE, prior, token,
                   conn, committed, working, txOwner, heads, cur, editsDone,
                   started, log, idx, exc, failedAt, failedRecorded,
                   prevFailedAt, runBase, filt, rendered>>

\* env.py:121-122  run_migrations in offline mode writes the SQL of the next
\* migration, from the base revision on, to standard output
DryRender ==
    /\ pc = "dry_run" /\ Len(rendered) < NumMigrations
    /\ rendered' = Append(rendered, Len(rendered) + 1)
    /\ UNCHANGED <<dialect, offline, pc, runNo, SQLITE_BEGIN_MODE, prior,
                   token, conn, committed, working, txOwner, heads, cur,
                   editsDone, started, log, idx, exc, failedAt,
                   failedRecorded, prevFailedAt, runBase, filt>>

\* env.py:121-122  every migration is rendered: dry_run_migrations returns
DryEnd ==
    /\ pc = "dry_run" /\ Len(rendered) = NumMigrations
    /\ pc' = "done"
    /\ UNCHANGED <<dialect, offline, runNo, SQLITE_BEGIN_MODE, prior, token,
                   conn, committed, working, txOwner, heads, cur, editsDone,
                   started, log, idx, exc, failedAt, failedRecorded,
                   prevFailedAt, runBase, filt, rendered>>

\* env.py:195-201, 186-190  live mode: acquire the connection, run_sync
apply_migrations ==
    /\ pc = "module" /\ ~is_offline_mode
    /\ pc' = "do_run"
    /\ UNCHANGED <<dialect, offline, runNo, SQLITE_BEGIN_MODE, prior, token,
                   conn, committed, working, txOwner, heads, cur, editsDone,
                   started, log, idx, exc, failedAt, failedRecorded,
                   prevFailedAt, runBase, filt, rendered>>

BeginModeOverride_deferred == "DEFERRED"

\* env.py:155  the value given to SQLITE_BEGIN_MODE.set()
BeginModeOverride == "IMMEDIATE"

\* env.py:132-155  configure, then token = SQLITE_BEGIN_MODE.set("IMMEDIATE")
SetBeginMode ==
    /\ pc = "do_run"
    /\ token' = SQLITE_BEGIN_MODE
    /\ SQLITE_BEGIN_MODE' = BeginModeOverride
    /\ pc' = "fk_enter"
    /\ idx' = 1
    /\ UNCHANGED <<dialect, offline, runNo, prior, conn, committed, working,
                   txOwner, heads, cur, editsDone, started, log, exc,
                   failedAt, failedRecorded, prevFailedAt, runBase, filt, rendered>>

ScopeActive_always == TRUE

\* env.py:169, 176  if dialect.name == "sqlite":
ScopeActive == dialect = "sqlite"

\* env.py:169-172  one statement of the scope's entry, on sqlite
FkEnterExec ==
    /\ pc = "fk_enter" /\ ScopeActive
    /\ LET sql == EnterStatements[idx]
           r == context_execute(conn, sql, SQLITE_BEGIN_MODE) IN
         /\ conn' = r.conn
         /\ log' = Append(log, [sql |-> sql, inTx |-> r.inTx])
         /\ committed' = IF r.commit THEN working ELSE committed
         /\ IF ~r.ok
            THEN pc' = "finally" /\ exc' = TRUE /\ idx' = idx
            ELSE /\ exc' = exc
                 /\ IF idx = Len(EnterStatements)
                    THEN pc' = "yield" /\ idx' = 1
                    ELSE pc' = pc /\ idx' = idx + 1
    /\ UNCHANGED <<dialect, offline, runNo, SQLITE_BEGIN_MODE, prior, token,
                   working, txOwner, heads, cur, editsDone, started,
                   failedAt, failedRecorded, prevFailedAt, runBase, filt, rendered>>

\* env.py:169  any other dialect: nothing before the yield
FkEnterSkip ==
    /\ pc = "fk_enter" /\ ~ScopeActive
    /\ pc' = "yield"
    /\ UNCHANGED <<dialect, offline, runNo, SQLITE_BEGIN_MODE, prior, token,
                   conn, committed, working, txOwner, heads, cur, editsDone,
                   started, log, idx, exc, failedAt, failedRecorded,
                   prevFailedAt, runBase, filt, rendered>>

\* env.py:174, 158  the body starts: with context.begin_transaction()
OuterBegin ==
    /\ pc = "yield"
    /\ log' = Append(log, [sql |-> "body", inTx |-> conn.db])
    /\ IF begin_transaction(FALSE)
       THEN /\ conn' = BeginTx(conn, SQLITE_BEGIN_MODE)
            /\ txOwner' = "outer"
       ELSE UNCHANGED <<conn, txOwner>>
    /\ pc' = "run"
    /\ UNCHANGED <<dialect, offline, runNo, SQLITE_BEGIN_MODE, prior, token,
                   committed, working, heads, cur, editsDone, started, idx,
                   exc, failedAt, failedRecorded, prevFailedAt, runBase,
                   filt, rendered>>

\* env.py:159  run_migrations: read the current version from the database
ResolveHeads ==
    /\ pc = "run"
    /\ conn' = autobegin(conn, SQLITE_BEGIN_MODE)
    /\ heads' = working.marker
    /\ cur' = PendingFrom(working.marker) - 1
    /\ pc' = "loop"
    /\ UNCHANGED <<dialect, offline, runNo, SQLITE_BEGIN_MODE, prior, token,
                   committed, working, txOwner, editsDone, started, log, idx,
                   exc, failedAt, failedRecorded, prevFailedAt, runBase,
                   filt, rendered>>

\* env.py:159  run_migrations: the next step enters its begin_transaction
StepBegin ==
    /\ pc = "loop" /\ cur < NumMigrations
    /\ cur' = cur + 1
    /\ started' = Append(started, cur + 1)
    /\ editsDone' = 0
    /\ IF begin_transaction(TRUE)
       THEN /\ conn' = BeginTx(conn, SQLITE_BEGIN_MODE)
            /\ txOwner' = "step"
       ELSE UNCHANGED <<conn, txOwner>>
    /\ pc' = "apply"
    /\ UNCHANGED <<dialect, offline, runNo, SQLITE_BEGIN_MODE, prior, token,
                   committed, working, heads, log, idx, exc, failedAt,
                   failedRecorded, prevFailedAt, runBase, filt, rendered>>

\* env.py:159  one schema edit of the step's upgrade()
ApplyEdit ==
    /\ pc = "apply"
    /\ LET c == autobegin(conn, SQLITE_BEGIN_MODE)
           w == [working EXCEPT !.edits[cur] = @ + 1] IN
         /\ conn' = c
         /\ working' = w
         /\ committed' = IF c.db THEN committed ELSE w
    /\ editsDone' = editsDone + 1
    /\ pc' = IF editsDone + 1 = EditsPerMigration THEN "record" ELSE "apply"
    /\ UNCHANGED <<dialect, offline, runNo, SQLITE_BEGIN_MODE, prior, token,
                   txOwner, heads, cur, started, log, idx, exc, failedAt,
                   failedRecorded, prevFailedAt, runBase, filt, rendered>>

\* env.py:159  head_maintainer.update_to_step: write the version record
UpdateVersion ==
    /\ pc = "record"
    /\ LET c == autobegin(conn, SQLITE_BEGIN_MODE)
           w == [working EXCEPT !.marker = cur] IN
         /\ conn' = c
         /\ working' = w
         /\ committed' = IF c.db THEN committed ELSE w
    /\ pc' = "commit"
    /\ UNCHANGED <<dialect, offline, runNo, SQLITE_BEGIN_MODE, prior, token,
                   txOwner, heads, cur, editsDone, started, log, idx, exc,
                   failedAt, failedRecorded, prevFailedAt, runBase, filt, rendered>>

\* env.py:159  the step's with-block exits normally: commit if it owns one
StepCommit ==
    /\ pc = "commit"
    /\ IF txOwner = "step"
       THEN /\ committed' = working
            /\ conn' = EndTx(conn)
            /\ txOwner' = "none"
       ELSE UNCHANGED <<committed, conn, txOwner>>
    /\ pc' = "loop"
    /\ UNCHANGED <<dialect, offline, runNo, SQLITE_BEGIN_MODE, prior, token,
                   working, heads, cur, editsDone, started, log, idx, exc,
                   failedAt, failedRecorded, prevFailedAt, runBase, filt, rendered>>

UnwindTarget_swallow == "loop"

UnwindTarget_scope_exit == "fk_exit"

\* env.py:156-161, 174  where an exception raised in the body goes: neither
\* the scope (no try around its yield) nor do_run_migrations (try/finally
\* without except) handles it, so the finally block is next
UnwindTarget == "finally"

\* env.py:156-159  the step raises (or is interrupted): every with-block that
\* owns the transaction rolls it back, and disable_sqlite_foreign_keys, which
\* has no try/finally around its yield, runs none of its exit statements
StepFail ==
    /\ pc \in {"apply", "record", "commit"}
    /\ IF txOwner # "none"
       THEN /\ working' = committed
            /\ conn' = EndTx(conn)
            /\ txOwner' = "none"
       ELSE UNCHANGED <<working, conn, txOwner>>
    /\ exc' = TRUE
    /\ failedAt' = cur
    /\ failedRecorded' = (pc = "commit")
    /\ pc' = UnwindTarget
    /\ UNCHANGED <<dialect, offline, runNo, SQLITE_BEGIN_MODE, prior, token,
                   committed, heads, cur, editsDone, started, log, idx,
                   prevFailedAt, runBase, filt, rendered>>

\* env.py:158-159  no step is left: the outer with-block exits normally
LoopEnd ==
    /\ pc = "loop" /\ cur >= NumMigrations
    /\ IF txOwner = "outer"
       THEN /\ committed' = working
            /\ conn' = EndTx(conn)
            /\ txOwner' = "none"
       ELSE UNCHANGED <<committed, conn, txOwner>>
    /\ pc' = "fk_exit"
    /\ idx' = 1
    /\ UNCHANGED <<dialect, offline, runNo, SQLITE_BEGIN_MODE, prior, token,
                   working, heads, cur, editsDone, started, log, exc,
                   failedAt, failedRecorded, prevFailedAt, runBase, filt, rendered>>

\* env.py:176-179  one statement of the scope's exit, on sqlite
FkExitExec ==
    /\ pc = "fk_exit" /\ ScopeActive
    /\ LET sql == ExitStatements[idx]
           r == context_execute(conn, sql, SQLITE_BEGIN_MODE) IN
         /\ conn' = r.conn
         /\ log' = Append(log, [sql |-> sql, inTx |-> r.inTx])
         /\ committed' = IF r.commit THEN working ELSE committed
         /\ IF ~r.ok
            THEN pc' = "finally" /\ exc' = TRUE /\ idx' = idx
            ELSE /\ exc' = exc
                 /\ IF idx = Len(ExitStatements)
                    THEN pc' = "finally" /\ idx' = 1
                    ELSE pc' = pc /\ idx' = idx + 1
    /\ UNCHANGED <<dialect, offline, runNo, SQLITE_BEGIN_MODE, prior, token,
                   working, txOwner, heads, cur, editsDone, started,
                   failedAt, failedRecorded, prevFailedAt, runBase, filt, rendered>>

\* env.py:176  any other dialect: nothing after the yield
FkExitSkip ==
    /\ pc = "fk_exit" /\ ~ScopeActive
    /\ pc' = "finally"
    /\ UNCHANGED <<dialect, offline, runNo, SQLITE_BEGIN_MODE, prior, token,
                   conn, committed, working, txOwner, heads, cur, editsDone,
                   started, log, idx, exc, failedAt, failedRecorded,
                   prevFailedAt, runBase, filt, rendered>>

\* env.py:160-161  finally: SQLITE_BEGIN_MODE.reset(token); the call returns
\* or the exception leaves do_run_migrations
Finally ==
    /\ pc = "finally"
    /\ SQLITE_BEGIN_MODE' = reset(SQLITE_BEGIN_MODE, token)
    /\ pc' = "returned"
    /\ UNCHANGED <<dialect, offline, runNo, prior, token, conn, committed,
                   working, txOwner, heads, cur, editsDone, started, log,
                   idx, exc, failedAt, failedRecorded, prevFailedAt, runBase,
                   filt, rendered>>

\* env.py:189  the connection's async-with exits: an open transaction is
\* rolled back and the connection released
CloseConnection ==
    /\ pc = "returned"
    /\ working' = committed
    /\ conn' = EndTx(conn)
    /\ pc' = IF exc THEN "raised" ELSE "done"
    /\ UNCHANGED <<dialect, offline, runNo, SQLITE_BEGIN_MODE, prior, token,
                   committed, txOwner, heads, cur, editsDone, started, log,
                   idx, exc, failedAt, failedRecorded, prevFailedAt, runBase,
                   filt, rendered>>

\* env.py:193-201  the module is executed again (the operator re-invokes the
\* tool): a new process state and a new connection on the same database
Reinvoke ==
    /\ pc \in {"done", "raised"} /\ runNo < MaxRuns
    /\ runNo' = runNo + 1
    /\ \E o \in BOOLEAN, m \in Modes, f \in {"ON", "OFF"} :
         /\ offline' = o
         /\ SQLITE_BEGIN_MODE' = m
         /\ prior' = m
         /\ conn' = FreshConn(f)
    /\ token' = "unset"
    /\ working' = committed
    /\ runBase' = committed.marker
    /\ prevFailedAt' = failedAt
    /\ txOwner' = "none" /\ heads' = 0 /\ cur' = 0 /\ editsDone' = 0
    /\ started' = <<>> /\ log' = <<>> /\ idx' = 1
    /\ exc' = FALSE /\ failedAt' = 0 /\ failedRecorded' = FALSE
    /\ rendered' = <<>>
    /\ pc' = "module"
    /\ UNCHANGED <<dialect, committed, filt>>

Init ==
    /\ dialect \in {"sqlite", "postgresql"}
    /\ offline \in BOOLEAN
    /\ SQLITE_BEGIN_MODE \in Modes
    /\ prior = SQLITE_BEGIN_MODE
    /\ \E f \in {"ON", "OFF"} : conn = FreshConn(f)
    /\ token = "unset"
    /\ committed = EmptyDb /\ working = EmptyDb
    /\ runNo = 1 /\ runBase = 0 /\ prevFailedAt = 0
    /\ txOwner = "none" /\ heads = 0 /\ cur = 0 /\ editsDone = 0
    /\ started = <<>> /\ log = <<>> /\ idx = 1
    /\ exc = FALSE /\ failedAt = 0 /\ failedRecorded = FALSE
    /\ rendered = <<>>
    /\ pc = "module"
    /\ filt = NoCall

Next ==
    \/ dry_run_migrations
    \/ DryRender
    \/ DryEnd
    \/ apply_migrations
    \/ SetBeginMode
    \/ FkEnterExec
    \/ FkEnterSkip
    \/ OuterBegin
    \/ ResolveHeads
    \/ StepBegin
    \/ ApplyEdit
    \/ UpdateVersion
    \/ StepCommit
    \/ StepFail
    \/ LoopEnd
    \/ FkExitExec
    \/ FkExitSkip
    \/ Finally
    \/ CloseConnection
    \/ Reinvoke

Spec == Init /\ [][Next]_vars

\* The filter alone: every input of the bounded sets, one call each.
FilterInit ==
    /\ dialect \in FilterDialects
    /\ offline = TRUE
    /\ SQLITE_BEGIN_MODE = "None" /\ prior = "None" /\ token = "unset"
    /\ conn = FreshConn("ON")
    /\ committed = EmptyDb /\ working = EmptyDb
    /\ runNo = 1 /\ runBase = 0 /\ prevFailedAt = 0
    /\ txOwner = "none" /\ heads = 0 /\ cur = 0 /\ editsDone = 0
    /\ started = <<>> /\ log = <<>> /\ idx = 1
    /\ exc = FALSE /\ failedAt = 0 /\ failedRecorded = FALSE
    /\ rendered = <<>>
    /\ pc = "autogenerate"
    /\ \E o \in Objects, t \in Types, r \in BOOLEAN, c \in CompareTos :
         filt = [called |-> FALSE, object |-> o, type_ |-> t,
                 reflected |-> r, compare_to |-> c, result |-> TRUE]

FilterNext == CallIncludeObject

FilterSpec == FilterInit /\ [][FilterNext]_vars

TypeOK ==
    /\ dialect \in FilterDialects
    /\ offline \in BOOLEAN
    /\ runNo \in 1..MaxRuns
    /\ SQLITE_BEGIN_MODE \in Modes /\ prior \in Modes
    /\ token \in Modes \cup {"unset"}
    /\ conn \in [sa : BOOLEAN, db : BOOLEAN, fk : {"ON", "OFF"}]
    /\ committed.marker \in 0..NumMigrations
    /\ working.marker \in 0..NumMigrations
    /\ txOwner \in {"none", "outer", "step"}
    /\ cur \in 0..NumMigrations
    /\ editsDone \in 0..EditsPerMigration
    /\ exc \in BOOLEAN
    /\ failedAt \in 0..NumMigrations

\* ------------------------------------------------------------------ claims
InStep == pc \in {"apply", "record", "commit"}

Applied(db, m) == db.edits[m] = EditsPerMigration

Unapplied(db, m) == db.edits[m] = 0

\* C1: when the step of migration N has raised in a live run, every migration
\* before N is applied and committed, N and every later migration are
\* unapplied (the partial edits and the version write of N are rolled back
\* together, also in the connection's own view), and the committed version
\* marker is N-1.
C1_FailureKeepsPrefix ==
    (pc \in {"finally", "returned", "raised"} /\ failedAt # 0) =>
        /\ committed.marker = failedAt - 1
        /\ \A m \in Migrations :
             IF m < failedAt THEN Applied(committed, m)
             ELSE Unapplied(committed, m)
        /\ working = committed

C1_Witness ==
    /\ pc = "raised" /\ failedAt = 2 /\ failedRecorded
    /\ started = <<1, 2>>
    /\ committed.marker = 1 /\ Applied(committed, 1) /\ Unapplied(committed, 2)

\* C2: while the step of a migration is in progress, the migration before it
\* and its version record are committed (the marker of the durable database
\* is the one just before), the step has its own transaction, and the steps
\* of a run were begun one at a time in version order.
C2_NextAfterCommit ==
    /\ InStep =>
         /\ cur >= 1 /\ txOwner = "step"
         /\ committed.marker = cur - 1
         /\ \A m \in Migrations : m < cur => Applied(committed, m)
         /\ Len(started) >= 1 /\ started[Len(started)] = cur
    /\ \A i \in 1..(Len(started) - 1) : started[i + 1] = started[i] + 1

C2_Witness ==
    /\ pc = "apply" /\ cur = 2 /\ editsDone = 1
    /\ started = <<1, 2>> /\ committed.marker = 1

\* C3: every live run resolves the current version from the committed marker
\* and begins exactly the migrations after it, in order; a run that completes
\* has begun all of them, and no migration's edits are ever applied twice.
C3_ResumeFromMarker ==
    /\ pc \in {"loop", "apply", "record", "commit"} => heads = runBase
    /\ started = [i \in 1..Len(started) |-> runBase + i]
    /\ (pc = "done" /\ ~offline) => runBase + Len(started) = NumMigrations
    /\ \A m \in Migrations :
         /\ committed.edits[m] <= EditsPerMigration
         /\ working.edits[m] <= EditsPerMigration

C3_Witness ==
    /\ pc = "done" /\ ~offline /\ runNo >= 2
    /\ prevFailedAt = 2 /\ runBase = 1
    /\ Len(started) = NumMigrations - 1 /\ started[1] = 2
    /\ committed.marker = NumMigrations

C4_MarkerMatchesEdits ==
    \A m \in Migrations :
        IF m <= committed.marker THEN Applied(committed, m)
        ELSE Unapplied(committed, m)

C4_MarkerStep ==
    committed'.marker # committed.marker =>
        /\ pc = "commit" /\ pc' = "loop"
        /\ committed'.marker = committed.marker + 1
        /\ committed'.marker = cur
        /\ Unapplied(committed, cur) /\ Applied(committed', cur)

\* C4: the committed version marker changes only when a step commits, by
\* exactly one migration and together with that migration's edits, so the
\* durable database always has exactly the migrations up to its marker
\* applied and none after it.
C4_MarkerAtomic == [](C4_MarkerMatchesEdits) /\ [][C4_MarkerStep]_vars

C4_Witness ==
    /\ pc = "finally" /\ failedRecorded /\ failedAt = NumMigrations
    /\ committed.marker = NumMigrations - 1
    /\ runNo = 1

\* C5: once do_run_migrations has finished, normally or with an exception,
\* SQLITE_BEGIN_MODE holds the value it had before the call.
C5_ModeRestored ==
    (~offline /\ pc \in {"returned", "done", "raised"}) =>
        SQLITE_BEGIN_MODE = prior

C5_Witness ==
    /\ pc = "returned" /\ exc /\ failedAt = 1
    /\ token = "None" /\ prior = "None" /\ SQLITE_BEGIN_MODE = "None"

ScopeLog ==
    <<"COMMIT", "PRAGMA foreign_keys=OFF", "BEGIN IMMEDIATE", "body",
      "END", "PRAGMA foreign_keys=ON", "BEGIN IMMEDIATE">>

\* C6: on sqlite, when the body completed normally, the scope executed
\* COMMIT, PRAGMA foreign_keys=OFF, BEGIN IMMEDIATE, the body, END,
\* PRAGMA foreign_keys=ON, BEGIN IMMEDIATE in this order, both PRAGMAs ran
\* with no transaction open, and on exit enforcement is ON and a transaction
\* is open.
C6_ScopeOrder ==
    (dialect = "sqlite" /\ pc \in {"finally", "returned"} /\ ~exc) =>
        /\ [i \in 1..Len(log) |-> log[i].sql] = ScopeLog
        /\ \A i \in 1..Len(log) :
             log[i].sql \in {"PRAGMA foreign_keys=OFF",
                             "PRAGMA foreign_keys=ON"} => ~log[i].inTx
        /\ conn.fk = "ON" /\ conn.db

C6_Witness ==
    /\ dialect = "sqlite" /\ pc = "finally" /\ ~exc
    /\ Len(log) = 7 /\ Len(started) >= 1
    /\ conn.fk = "ON" /\ conn.db

\* C7 as stated: on sqlite, when the next pending migration of a live run
\* begins after another one, foreign-key enforcement is ON again.
C7_Original ==
    (dialect = "sqlite" /\ pc = "apply" /\ editsDone = 0
        /\ Len(started) >= 2) => conn.fk = "ON"

\* C7 amended: on sqlite, enforcement stays OFF from the first migration of
\* a live run to the last (also when the next pending migration begins) and
\* is ON again when the run has completed normally, before do_run_migrations
\* returns.
C7_ReenabledAfterRun ==
    dialect = "sqlite" =>
        /\ pc \in {"run", "loop", "apply", "record", "commit"} =>
             conn.fk = "OFF"
        /\ (pc \in {"finally", "returned"} /\ ~exc) => conn.fk = "ON"

C7_Witness ==
    /\ dialect = "sqlite" /\ pc = "returned" /\ ~exc
    /\ Len(started) >= 2 /\ conn.fk = "ON"

IsFunctionalName(n) == endswith(n, asc) \/ endswith(n, desc)

\* C8: for an unreflected index whose name ends with "asc" or "desc",
\* include_object returns false exactly when a compare-target of the same
\* name exists, on every dialect.
C8_FunctionalIndex ==
    (filt.called /\ filt.type_ = "index" /\ ~filt.reflected
        /\ IsFunctionalName(filt.object.name)) =>
        (filt.result <=>
            ~(filt.compare_to.present
                /\ filt.compare_to.name = filt.object.name))

C8_Witness ==
    /\ filt.called /\ filt.type_ = "index" /\ ~filt.reflected
    /\ filt.object.name = ix_ \o desc
    /\ filt.compare_to.present /\ filt.compare_to.name = ix_ \o desc
    /\ filt.object.ddl_if = DdlIf("str", {"postgresql"})
    /\ dialect = "postgresql"
    /\ ~filt.result

CarriesDialect(o) == o.ddl_if.present /\ o.ddl_if.kind # "none"

C10_ReflectedExcluded ==
    (filt.called /\ filt.type_ = "index" /\ filt.reflected
        /\ (startswith(filt.object.name, gin)
              \/ endswith(filt.object.name, case_insensitive))) =>
        ~filt.result

C10_Witness ==
    /\ filt.called /\ filt.type_ = "index" /\ filt.reflected
    /\ filt.object.name = ix_ \o case_insensitive
    /\ ~filt.compare_to.present
    /\ dialect = "mysql"
    /\ ~filt.result

\* C11: on sqlite a column whose declared type is an enum and that has a
\* compare-target is included exactly when the compare-target's type is an
\* enum too; an enum column with no compare-target, or on any other dialect,
\* is included.
C11_SqliteEnum ==
    (filt.called /\ filt.type_ = "column" /\ filt.object.type = "enum") =>
        IF dialect = "sqlite" /\ filt.compare_to.present
        THEN filt.result <=> (filt.compare_to.type = "enum")
        ELSE filt.result

C11_Witness ==
    /\ filt.called /\ filt.type_ = "column" /\ filt.object.type = "enum"
    /\ dialect = "sqlite"
    /\ filt.compare_to.present /\ filt.compare_to.type = "string"
    /\ ~filt.result

C12_OfflineState ==
    /\ offline =>
         /\ pc \in {"module", "dry_run", "done"}
         /\ ~conn.sa /\ ~conn.db /\ txOwner = "none"
         /\ log = <<>> /\ started = <<>>
         /\ token = "unset" /\ SQLITE_BEGIN_MODE = prior
         /\ committed.marker = runBase /\ working = committed
    /\ ~offline => (pc # "dry_run" /\ rendered = <<>>)

C12_OfflineStep ==
    (offline /\ pc # "done") =>
        /\ committed' = committed /\ working' = working
        /\ conn' = conn
        /\ SQLITE_BEGIN_MODE' = SQLITE_BEGIN_MODE

\* C12: the entry point takes the dry-run path exactly when the context is
\* offline and the live path otherwise; the dry run acquires no transaction
\* and executes no statement, and none of its steps changes the database
\* (schema and version marker), foreign-key enforcement or SQLITE_BEGIN_MODE.
C12_DryRunFrame == [](C12_OfflineState) /\ [][C12_OfflineStep]_vars

C12_Witness ==
    /\ offline /\ pc = "done" /\ Len(rendered) = NumMigrations
    /\ runNo >= 2 /\ committed.marker = 1 /\ prevFailedAt = 2
    /\ conn.fk = "OFF" /\ SQLITE_BEGIN_MODE = "DEFERRED"

\* C13: when a step has raised, the exception is propagating or has left
\* the run (the run never ends as a success), the failing migration is the
\* last one begun in the run and was begun once, and no later migration is
\* begun.
C13_FailurePropagates ==
    /\ failedAt # 0 =>
         /\ exc /\ pc \in {"finally", "returned", "raised"}
         /\ Len(started) >= 1 /\ started[Len(started)] = failedAt
         /\ Cardinality({i \in 1..Len(started) : started[i] = failedAt}) = 1
         /\ \A i \in 1..Len(started) : started[i] <= failedAt
    /\ pc = "done" => (~exc /\ failedAt = 0)
    /\ pc = "raised" => exc

C13_Witness ==
    /\ pc = "raised" /\ exc /\ failedAt = 1 /\ ~failedRecorded
    /\ started = <<1>> /\ committed.marker = 0

\* C14: on sqlite, while a migration step is in progress (its edits and
\* its version write are being applied) foreign-key enforcement is OFF: the
\* scope's PRAGMA foreign_keys=OFF was executed, outside any transaction,
\* before the body.
C14_EditsInsideScope ==
    (dialect = "sqlite" /\ InStep) =>
        /\ conn.fk = "OFF"
        /\ Len(log) = 4
        /\ log[2].sql = "PRAGMA foreign_keys=OFF" /\ ~log[2].inTx
        /\ log[4].sql = "body"

C14_Witness ==
    /\ dialect = "sqlite" /\ pc = "apply" /\ editsDone = 1 /\ cur = 1
    /\ working.edits[1] = 1 /\ conn.fk = "OFF" /\ conn.db

C15_ModeInStep ==
    (InStep \/ txOwner # "none") => SQLITE_BEGIN_MODE = "IMMEDIATE"

C15_ModeAtBegin ==
    (~conn.sa /\ conn'.sa) => SQLITE_BEGIN_MODE = "IMMEDIATE"

\* C15: in live mode SQLITE_BEGIN_MODE is IMMEDIATE whenever a migration
\* step is in progress or a with-block owns a transaction, and every
\* transaction of the connection is begun while it is IMMEDIATE.
C15_ImmediateDuringStep == [](C15_ModeInStep) /\ [][C15_ModeAtBegin]_vars

C15_Witness ==
    /\ pc = "commit" /\ cur = 2 /\ txOwner = "step"
    /\ prior = "None" /\ SQLITE_BEGIN_MODE = "IMMEDIATE"
    /\ conn.sa /\ conn.db

\* C16 as stated: between the end of one migration of a live run and the
\* start of the next, SQLITE_BEGIN_MODE holds its pre-run value.
C16_Original ==
    (~offline /\ pc = "loop" /\ Len(started) >= 1 /\ cur < NumMigrations) =>
        SQLITE_BEGIN_MODE = prior

InDoRun ==
    pc \in {"fk_enter", "yield", "run", "loop", "apply", "record", "commit",
            "fk_exit", "finally"}

C16_ModeHeld ==
    /\ InDoRun => (SQLITE_BEGIN_MODE = "IMMEDIATE" /\ token = prior)
    /\ (~offline /\ pc \in {"returned", "done", "raised"}) =>
         SQLITE_BEGIN_MODE = prior

C16_ModeStep ==
    SQLITE_BEGIN_MODE' # SQLITE_BEGIN_MODE =>
        pc \in {"do_run", "finally", "done", "raised"}

\* C16 amended: SQLITE_BEGIN_MODE is set once, before the first migration
\* step of the run, and restored to its prior value once, after the last
\* step has completed or a step has failed; between the end of one migration
\* and the start of the next it still holds IMMEDIATE.
C16_SetOncePerRun == [](C16_ModeHeld) /\ [][C16_ModeStep]_vars

C16_Witness ==
    /\ pc = "loop" /\ cur = 1 /\ started = <<1>> /\ committed.marker = 1
    /\ prior = "DEFERRED" /\ token = "DEFERRED"
    /\ SQLITE_BEGIN_MODE = "IMMEDIATE"

IsSuppressedName(n) == startswith(n, gin) \/ endswith(n, case_insensitive)

NoRuleMatches ==
    \/ filt.type_ \in {"table", "unique_constraint", "foreign_key_constraint"}
    \/ /\ filt.type_ = "index" /\ ~filt.reflected
       /\ ~IsFunctionalName(filt.object.name)
       /\ ~CarriesDialect(filt.object)
    \/ /\ filt.type_ = "index" /\ filt.reflected
       /\ ~IsSuppressedName(filt.object.name)
    \/ /\ filt.type_ = "column"
       /\ ~(dialect = "sqlite" /\ filt.object.type = "enum"
              /\ filt.compare_to.present)

\* C18: include_object returns true for every object that no rule matches:
\* every table, unique constraint and foreign-key constraint on every
\* dialect, every unreflected index with neither an asc/desc suffix nor a
\* dialect constraint, every reflected index whose name neither starts with
\* "gin" nor ends with "case_insensitive", and every column outside the
\* sqlite enum rule.
C18_DefaultInclude ==
    (filt.called /\ NoRuleMatches) => filt.result

C18_Witness ==
    /\ filt.called /\ filt.type_ = "table" /\ filt.reflected
    /\ filt.object.name = gin \o <<"_","f","o","o">>
    /\ filt.object.ddl_if = DdlIf("str", {"postgresql"})
    /\ filt.compare_to.present
    /\ dialect = "sqlite"
    /\ filt.result

\* C19: on sqlite, when a step has raised, the scope has run none of its
\* exit statements (its log ends with the body): enforcement is still OFF and
\* no transaction is open when the exception leaves do_run_migrations, while
\* SQLITE_BEGIN_MODE has been restored.
C19_NoExitOnError ==
    (dialect = "sqlite" /\ failedAt # 0 /\ pc \in {"finally", "returned"}) =>
        /\ [i \in 1..Len(log) |-> log[i].sql] = SubSeq(ScopeLog, 1, 4)
        /\ conn.fk = "OFF" /\ ~conn.db
        /\ pc = "returned" => SQLITE_BEGIN_MODE = prior

C19_Witness ==
    /\ dialect = "sqlite" /\ pc = "returned" /\ exc /\ failedAt = 2
    /\ conn.fk = "OFF" /\ Len(log) = 4
    /\ prior = "DEFERRED" /\ SQLITE_BEGIN_MODE = "DEFERRED"

C20_NoScopeLog ==
    dialect # "sqlite" => \A i \in 1..Len(log) : log[i].sql = "body"

C20_ScopeStep ==
    dialect # "sqlite" =>
        /\ pc \in {"fk_enter", "fk_exit"} =>
             /\ conn' = conn /\ log' = log
             /\ committed' = committed /\ working' = working
        /\ pc \notin {"done", "raised"} => conn'.fk = conn.fk

\* C20: on a dialect other than sqlite the scope executes no statement of
\* its own: entering and leaving it change neither the connection's
\* transaction state, nor the enforcement flag, nor the database, and the
\* enforcement flag is not changed during the run at all.
C20_ScopeInert == [](C20_NoScopeLog) /\ [][C20_ScopeStep]_vars

C20_Witness ==
    /\ dialect = "postgresql" /\ pc = "finally" /\ ~exc
    /\ Len(log) = 1 /\ log[1].sql = "body"
    /\ Len(started) = NumMigrations /\ committed.marker = NumMigrations
    /\ ~conn.sa /\ ~conn.db

====
